---- MODULE Spec2Model ----
(***************************************************************************)
(* RegionScanner: block counting per region, the area-weighted merge of    *)
(* region tables, the per-dimension scan driver, zone construction, the    *)
(* JER distribution-string export with its warn-once cache, the mapping of *)
(* dimension identifiers to paths and the rarity filter.                   *)
(*                                                                         *)
(* f64 values are modelled as exact rationals [n, d] in lowest terms; the  *)
(* two IEEE specials a division by zero produces are kept apart (NaN, Inf).*)
(***************************************************************************)
EXTENDS Integers, Sequences, FiniteSets, TLC

VARIABLES
    pc,                \* position of the running program
    proto,             \* ProtoOption argument
    \* ---- count_blocks / count_frequencies on one region
    region,            \* the region being scanned: its chunk slots in iteration order
    slot,              \* index of the next chunk slot of the for loop
    counts,            \* HashMap<String, HashMap<isize, u64>>
    blocks_counted,
    chunks_counted,
    protochunks_seen,
    table,             \* the BlockFrequencies count_frequencies returned (or NoTable)
    \* ---- scan_multiple / process_zone_in_folder
    world,             \* dim_paths and what the loader finds at every region coordinate
    dim,               \* index of the dimension scan_multiple is at
    version,           \* result of determine_version for the current dimension
    next_region,       \* next coordinate the parallel map hands out
    parts,             \* partial results of the rayon reduce, in coordinate order
    weights,           \* every a_weight handed to counts_add_weighted in this dimension
    merges,            \* (main.area, other.area) of every merge_frequencies_into call
    results_by_dim,
    outcomes,          \* DimensionScanResult tag per dimension scanned so far
    \* ---- Zone construction
    zone_args,
    zone,
    coords,
    \* ---- generate_JER_json / freqs_to_distrib
    frequency_data,
    exp_idx,
    exp_done,
    distrib_list,
    cache,             \* DIMENSIONS_LIMITS_EXCEEDED
    log,
    \* ---- main: dimension arguments and the rarity filter
    dims,              \* args.dims
    dims_idx,          \* index of the dimension the for loop of main is at
    paths_to_scan,
    only_blocks_above, \* the cutoff handed to remove_too_rare
    unfiltered,        \* results_by_dim as remove_too_rare received it
    filter_idx,        \* index of the entry results_by_dim.iter_mut() is at
    \* ---- freqs_to_distrib called from several threads
    threads,           \* per thread: its calls and where it is in the current one
    mutex              \* holder of the lock of DIMENSIONS_LIMITS_EXCEEDED, 0 if free

vars == <<pc, proto, region, slot, counts, blocks_counted, chunks_counted,
          protochunks_seen, table, world, dim, version, next_region, parts,
          weights, merges, results_by_dim, outcomes, zone_args, zone, coords,
          frequency_data, exp_idx, exp_done, distrib_list, cache, log,
          dims, dims_idx, paths_to_scan, only_blocks_above, unfiltered,
          filter_idx, threads, mutex>>

regionVars == <<region, slot, counts, blocks_counted, chunks_counted,
                protochunks_seen, table>>
scanVars == <<world, dim, version, next_region, parts, weights, merges,
              results_by_dim, outcomes>>
zoneVars == <<zone_args, zone, coords>>
exportVars == <<frequency_data, exp_idx, exp_done, distrib_list, cache, log>>
mainVars == <<dims, dims_idx, paths_to_scan, only_blocks_above, unfiltered,
              filter_idx>>
warnVars == <<threads, mutex>>

---------------------------------------------------------------------------
(* Bounds of the model *)

\* chunk slots of the scanned region in SpecRegion (the code iterates 32*32)
ChunkSlots == 3
\* regions of the zone in Spec
ZoneRegions == 3
\* dimensions and regions per dimension in SpecDims
NumDims == 2
DimRegions == 2
\* zone arguments range over -ZoneSpan..ZoneSpan in SpecZone
ZoneSpan == 1

---------------------------------------------------------------------------
(* Exact rationals standing in for f64 *)

RECURSIVE GCD(_, _)
GCD(a, b) == IF b = 0 THEN a ELSE GCD(b, a % b)

NaN == [n |-> 0, d |-> 0]
Inf == [n |-> 1, d |-> 0]
Zero == [n |-> 0, d |-> 1]
One == [n |-> 1, d |-> 1]

IsFinite(a) == a.d > 0

\* n / d for non-negative n, d as f64 division: 0/0 = NaN, x/0 = inf
F64Div(n, d) ==
    IF d = 0 THEN (IF n = 0 THEN NaN ELSE Inf)
    ELSE LET g == GCD(n, d) IN [n |-> n \div g, d |-> d \div g]

F64Mul(a, b) ==
    IF ~IsFinite(a) \/ ~IsFinite(b) THEN NaN
    ELSE F64Div(a.n * b.n, a.d * b.d)

F64Add(a, b) ==
    IF ~IsFinite(a) \/ ~IsFinite(b) THEN NaN
    ELSE F64Div(a.n * b.d + b.n * a.d, a.d * b.d)

\* 1.0 - a, for a in [0,1]
F64OneMinus(a) ==
    IF ~IsFinite(a) THEN NaN ELSE F64Div(a.d - a.n, a.d)

\* (0.0..=1.0).contains(&a): false for NaN
InUnitRange(a) == IsFinite(a) /\ 0 <= a.n /\ a.n <= a.d

Min(S) == CHOOSE x \in S : \A y \in S : x <= y
Max(S) == CHOOSE x \in S : \A y \in S : x >= y

RECURSIVE SumOver(_, _)
SumOver(S, f) ==
    IF S = {} THEN 0
    ELSE LET x == CHOOSE x \in S : TRUE IN f[x] + SumOver(S \ {x}, f)

---------------------------------------------------------------------------
(* Chunks as the chunk source hands them out *)

Stone == "minecraft:stone"
Ore == "minecraft:diamond_ore"
BlockNames == {Stone, Ore}
NoBlock == "none"

\* the 16 x 16 horizontal footprint iterated by iproduct!(y_range, 0..16, 0..16)
ChunkSide == 16
Footprint == (0 .. ChunkSide - 1) \X (0 .. ChunkSide - 1)

\* chunk_processed.y_range() of the two chunk layouts used as inputs
YRange(tmpl) == IF tmpl = "stone" THEN 0 .. 1 ELSE -1 .. 0

\* chunk_processed.block(x, y, z)
Block(tmpl, x, y, z) ==
    IF tmpl = "stone"
    THEN (IF y = 0 THEN Stone ELSE NoBlock)
    ELSE (IF y = -1
          THEN (IF x = 0 /\ z = 0 THEN Ore ELSE Stone)
          ELSE (IF x < 8 THEN Stone ELSE NoBlock))

Templates == {"stone", "ore"}

\* how many (z, x) of level y of a chunk hold block name
LayerCount ==
    [tmpl \in Templates |->
        [y \in YRange(tmpl) |->
            [name \in BlockNames |->
                Cardinality({p \in Footprint : Block(tmpl, p[2], y, p[1]) = name})]]]

Absent == [kind |-> "absent", status |-> "-", variant |-> "-", tmpl |-> "-"]
Undecodable == [kind |-> "undecodable", status |-> "-", variant |-> "-", tmpl |-> "-"]
Chunk(status, variant, tmpl) ==
    [kind |-> "chunk", status |-> status, variant |-> variant, tmpl |-> tmpl]

FullPost18 == Chunk("minecraft:full", "Post18", "stone")
FullPre18 == Chunk("full", "Pre18", "ore")
FullPre13 == Chunk("full", "Pre13", "stone")
ProtoPost18 == Chunk("minecraft:features", "Post18", "ore")
ProtoPre18 == Chunk("features", "Pre18", "stone")

ChunkInputs ==
    {Absent, Undecodable, FullPost18, FullPre18, FullPre13, ProtoPost18, ProtoPre18}

ProtoOptions == {"Skip", "Include", "OnlyProto"}

---------------------------------------------------------------------------
(* count_blocks *)

EmptyMap == [x \in {} |-> 0]

\* let is_full = chunk_state == "minecraft:full" || chunk_state == "full"
IsFull(c) == c.status = "minecraft:full" \/ c.status = "full"

NewCounter ==
    [counts |-> EmptyMap, blocks_counted |-> 0, chunks_counted |-> 0,
     protochunks_seen |-> 0]

\* the loop of the closure over (y, z, x): counts[name][y] += 1 for every block
\* found, an entry being created by the first increment
AddCounts(cnt, tmpl) ==
    LET present(name) == {y \in YRange(tmpl) : LayerCount[tmpl][y][name] > 0}
        names == DOMAIN cnt \cup {name \in BlockNames : present(name) # {}}
        had(name) == IF name \in DOMAIN cnt THEN DOMAIN cnt[name] ELSE {}
        old(name, y) == IF y \in had(name) THEN cnt[name][y] ELSE 0
        add(name, y) == IF y \in present(name) THEN LayerCount[tmpl][y][name] ELSE 0
    IN  [name \in names |->
            [y \in had(name) \cup present(name) |-> old(name, y) + add(name, y)]]

\* closure(xpos, zpos, chunk_processed)
closure(acc, c) ==
    [acc EXCEPT
        !.counts = AddCounts(acc.counts, c.tmpl),
        !.blocks_counted = @ + Cardinality(YRange(c.tmpl)) * Cardinality(Footprint),
        !.chunks_counted = @ + 1]

\* faulty variant of ScanSlot: the `continue` under Skip is missing
ScanSlotNoSkip(acc, s, p) ==
    IF s.kind # "chunk" THEN acc
    ELSE IF ~IsFull(s)
         THEN closure([acc EXCEPT !.protochunks_seen = @ + 1], s)
         ELSE IF p = "OnlyProto" THEN acc ELSE closure(acc, s)

\* one iteration of `for data in chunks(region).flatten()`
ScanSlot(acc, s, p) ==
    IF s.kind # "chunk" THEN acc
    ELSE IF ~IsFull(s)
         THEN LET seen == [acc EXCEPT !.protochunks_seen = @ + 1]
              IN  IF p = "Skip" THEN seen ELSE closure(seen, s)
         ELSE IF p = "OnlyProto" THEN acc ELSE closure(acc, s)

RECURSIVE ScanSlots(_, _, _, _)
ScanSlots(acc, chunks, i, p) ==
    IF i > Len(chunks) THEN acc
    ELSE ScanSlots(ScanSlot(acc, chunks[i], p), chunks, i + 1, p)

BlockCounts(acc, dimension) ==
    [counts |-> acc.counts, blocks_counted |-> acc.blocks_counted,
     chunks_counted |-> acc.chunks_counted,
     protochunks_seen |-> acc.protochunks_seen, dimension |-> dimension]

count_blocks(chunks, dimension, p) ==
    BlockCounts(ScanSlots(NewCounter, chunks, 1, p), dimension)

---------------------------------------------------------------------------
(* count_frequencies *)

\* faulty variant of Area: one side of the footprint instead of 16 * 16
AreaPerBlockColumn(n) == ChunkSide * n

\* let area: u64 = (16 * 16) * counting_results.chunks_counted as u64
Area(n) == (ChunkSide * ChunkSide) * n

Normalize(bc) ==
    [frequencies |->
        [name \in DOMAIN bc.counts |->
            [y \in DOMAIN bc.counts[name] |->
                F64Div(bc.counts[name][y], Area(bc.chunks_counted))]],
     blocks_counted |-> bc.blocks_counted,
     chunks_counted |-> bc.chunks_counted,
     protochunks_seen |-> bc.protochunks_seen,
     area |-> Area(bc.chunks_counted),
     dimension |-> bc.dimension]

count_frequencies(chunks, dimension, p) ==
    Normalize(count_blocks(chunks, dimension, p))

\* BlockFrequencies::empty
Empty(dimension) ==
    [frequencies |-> EmptyMap, blocks_counted |-> 0, chunks_counted |-> 0,
     protochunks_seen |-> 0, area |-> 0, dimension |-> dimension]

---------------------------------------------------------------------------
(* Values of the variables a specification does not use *)

NoTable == "none"
Overworld == "minecraft:overworld"
Nether == "minecraft:the_nether"

RegionIdle ==
    /\ region = <<>> /\ slot = 0 /\ counts = EmptyMap /\ blocks_counted = 0
    /\ chunks_counted = 0 /\ protochunks_seen = 0 /\ table = NoTable

ScanIdle ==
    /\ world = <<>> /\ dim = 0 /\ version = "-" /\ next_region = 0
    /\ parts = <<>> /\ weights = {} /\ merges = {} /\ results_by_dim = <<>>
    /\ outcomes = <<>>

ZoneIdle == zone_args = <<>> /\ zone = "none" /\ coords = <<>>

ExportIdle ==
    /\ frequency_data = <<>> /\ exp_idx = 0 /\ exp_done = {}
    /\ distrib_list = <<>> /\ cache = <<>> /\ log = <<>>

MainIdle ==
    /\ dims = <<>> /\ dims_idx = 0 /\ paths_to_scan = <<>>
    /\ only_blocks_above = Zero /\ unfiltered = <<>> /\ filter_idx = 0

WarnIdle == threads = <<>> /\ mutex = 0

---------------------------------------------------------------------------
(* SpecRegion: count_frequencies on one region, one chunk slot per step *)

InitRegion ==
    /\ pc = "count_blocks"
    /\ proto \in ProtoOptions
    /\ region \in [1 .. ChunkSlots -> ChunkInputs]
    /\ slot = 1
    /\ counts = EmptyMap /\ blocks_counted = 0 /\ chunks_counted = 0
    /\ protochunks_seen = 0
    /\ table = NoTable
    /\ ScanIdle /\ ZoneIdle /\ ExportIdle /\ MainIdle
    /\ WarnIdle

Counter ==
    [counts |-> counts, blocks_counted |-> blocks_counted,
     chunks_counted |-> chunks_counted, protochunks_seen |-> protochunks_seen]

SetCounter(acc) ==
    /\ counts' = acc.counts
    /\ blocks_counted' = acc.blocks_counted
    /\ chunks_counted' = acc.chunks_counted
    /\ protochunks_seen' = acc.protochunks_seen

InLoop == pc = "count_blocks" /\ slot <= Len(region)

LoopStep ==
    /\ SetCounter(ScanSlot(Counter, region[slot], proto))
    /\ slot' = slot + 1
    /\ UNCHANGED <<warnVars, mainVars, pc, proto, region, table, scanVars, zoneVars, exportVars>>

\* chunks(region) yields None for the slot: flatten() drops it
SlotAbsent == InLoop /\ region[slot].kind = "absent" /\ LoopStep

\* JavaChunk::from_bytes fails: the chunk is silently skipped
DecodeFails == InLoop /\ region[slot].kind = "undecodable" /\ LoopStep

ProtoChunk ==
    InLoop /\ region[slot].kind = "chunk" /\ ~IsFull(region[slot]) /\ LoopStep

FullChunk ==
    InLoop /\ region[slot].kind = "chunk" /\ IsFull(region[slot]) /\ LoopStep

\* the loop is over: count_blocks returns the BlockCounts
ReturnCounts ==
    /\ pc = "count_blocks" /\ slot > Len(region)
    /\ pc' = "count_frequencies"
    /\ UNCHANGED <<warnVars, mainVars, proto, regionVars, scanVars, zoneVars, exportVars>>

\* the rest of count_frequencies
NormalizeCounts ==
    /\ pc = "count_frequencies"
    /\ table' = Normalize(BlockCounts(Counter, Overworld))
    /\ pc' = "region_done"
    /\ UNCHANGED <<warnVars, mainVars, proto, region, slot, counts, blocks_counted, chunks_counted,
                   protochunks_seen, scanVars, zoneVars, exportVars>>

NextRegion ==
    \/ SlotAbsent
    \/ DecodeFails
    \/ ProtoChunk
    \/ FullChunk
    \/ ReturnCounts
    \/ NormalizeCounts

SpecRegion == InitRegion /\ [][NextRegion]_vars

\* slots of the region already visited, by what the chunk source gave for them
Visited == 1 .. (slot - 1)
FullSlots == {i \in Visited : region[i].kind = "chunk" /\ IsFull(region[i])}
ProtoSlots == {i \in Visited : region[i].kind = "chunk" /\ ~IsFull(region[i])}

\* slots the policy lets count
PolicySlots ==
    CASE proto = "Skip" -> FullSlots
      [] proto = "Include" -> FullSlots \cup ProtoSlots
      [] proto = "OnlyProto" -> ProtoSlots

CountAt(cnt, name, y) ==
    IF name \in DOMAIN cnt /\ y \in DOMAIN cnt[name] THEN cnt[name][y] ELSE 0

BlocksIn(i, name, y) ==
    IF y \in YRange(region[i].tmpl) THEN LayerCount[region[i].tmpl][y][name] ELSE 0

AllLevels == UNION {YRange(t) : t \in Templates}

(* C6: after any number of loop iterations of count_blocks, chunks_counted is
   the number of decodable full chunks under Skip, full plus proto under
   Include and proto under OnlyProto; protochunks_seen is the number of
   decodable protochunks; counts and blocks_counted hold exactly the blocks
   of the chunks the policy lets count, so skipped chunks, undecodable chunks
   and absent slots add to no counter. *)
C6_ProtoPolicy ==
    pc \in {"count_blocks", "count_frequencies", "region_done"} =>
        /\ chunks_counted = Cardinality(PolicySlots)
        /\ protochunks_seen = Cardinality(ProtoSlots)
        /\ blocks_counted =
              SumOver(PolicySlots,
                      [i \in PolicySlots |->
                          Cardinality(YRange(region[i].tmpl)) * 256])
        /\ \A name \in BlockNames, y \in AllLevels :
              CountAt(counts, name, y) =
                  SumOver(PolicySlots, [i \in PolicySlots |-> BlocksIn(i, name, y)])
        /\ \A name \in DOMAIN counts : \A y \in DOMAIN counts[name] :
              name \in BlockNames /\ y \in AllLevels /\ counts[name][y] > 0

\* a region with full chunks, protochunks, an undecodable chunk, scanned to the end
C6_Witness ==
    /\ pc = "region_done"
    /\ proto = "Skip"
    /\ FullSlots # {} /\ ProtoSlots # {}
    /\ \E i \in 1 .. Len(region) : region[i].kind = "undecodable"

(* C10: the table count_frequencies returns has area = 256 * chunks_counted,
   holds for every (block, level) of the raw counts exactly count / area and
   no other entry, and with zero chunks counted it is the empty table of
   area 0, returned like any other (every value finite). *)
C10_Normalization ==
    pc = "region_done" =>
        /\ table.area = 256 * chunks_counted
        /\ DOMAIN table.frequencies = DOMAIN counts
        /\ \A name \in DOMAIN counts :
              /\ DOMAIN table.frequencies[name] = DOMAIN counts[name]
              /\ \A y \in DOMAIN counts[name] :
                    LET f == table.frequencies[name][y]
                    IN  IsFinite(f) /\ f.n * table.area = counts[name][y] * f.d
        /\ chunks_counted = 0 => table.frequencies = EmptyMap /\ table.area = 0
        /\ table.chunks_counted = chunks_counted
        /\ table.blocks_counted = blocks_counted
        /\ table.protochunks_seen = protochunks_seen

C10_Witness ==
    /\ pc = "region_done"
    /\ chunks_counted = 2
    /\ Ore \in DOMAIN table.frequencies
    /\ table.frequencies[Ore][-1] = [n |-> 1, d |-> 512]

---------------------------------------------------------------------------
(* merge_frequencies_into and counts_add_weighted *)

Get(m, key) == IF key \in DOMAIN m THEN m[key] ELSE Zero

\* faulty variant of Alpha: divides by other.area instead of the total
AlphaOverOther(main_area, other_area) == F64Div(main_area, other_area)

\* let total_area: f64 = (main.area + other.area) as f64;
\* let alpha: f64 = main.area as f64 / total_area;
Alpha(main_area, other_area) == F64Div(main_area, main_area + other_area)

\* faulty variant of counts_add_weighted: the keys of b alone are left out
AddWeightedOwnKeys(a, b, a_weight) ==
    LET b_weight == F64OneMinus(a_weight)
    IN  [key \in DOMAIN a |->
            F64Add(F64Mul(Get(a, key), a_weight), F64Mul(Get(b, key), b_weight))]

\* the map a after counts_add_weighted(a, b, a_weight), the assertion holding
counts_add_weighted(a, b, a_weight) ==
    LET b_weight == F64OneMinus(a_weight)
        keys == DOMAIN a \cup DOMAIN b
    IN  [key \in keys |->
            F64Add(F64Mul(Get(a, key), a_weight), F64Mul(Get(b, key), b_weight))]

\* faulty variant of merge_frequencies_into: the Entry::Vacant arm is missing
MergeOccupiedOnly(main, other) ==
    [main EXCEPT
        !.frequencies =
            [name \in DOMAIN main.frequencies |->
                IF name \in DOMAIN other.frequencies
                THEN counts_add_weighted(main.frequencies[name],
                                         other.frequencies[name],
                                         Alpha(main.area, other.area))
                ELSE main.frequencies[name]],
        !.area = main.area + other.area,
        !.blocks_counted = main.blocks_counted + other.blocks_counted,
        !.chunks_counted = main.chunks_counted + other.chunks_counted,
        !.protochunks_seen = main.protochunks_seen + other.protochunks_seen]

\* faulty variant of merge_frequencies_into: the protochunks of other are not
\* added to main's
MergeForgetsProtochunks(main, other) ==
    [main EXCEPT
        !.frequencies =
            [name \in DOMAIN main.frequencies \cup DOMAIN other.frequencies |->
                IF name \notin DOMAIN other.frequencies
                THEN main.frequencies[name]
                ELSE IF name \in DOMAIN main.frequencies
                     THEN counts_add_weighted(main.frequencies[name],
                                              other.frequencies[name],
                                              Alpha(main.area, other.area))
                     ELSE other.frequencies[name]],
        !.area = main.area + other.area,
        !.blocks_counted = main.blocks_counted + other.blocks_counted,
        !.chunks_counted = main.chunks_counted + other.chunks_counted]

\* main after merge_frequencies_into(&mut main, other); main.area is read
\* inside the loop before it is updated, so the iteration order of
\* other.frequencies does not matter
merge_frequencies_into(main, other) ==
    [main EXCEPT
        !.frequencies =
            [name \in DOMAIN main.frequencies \cup DOMAIN other.frequencies |->
                IF name \notin DOMAIN other.frequencies
                THEN main.frequencies[name]
                ELSE IF name \in DOMAIN main.frequencies
                     \* Entry::Occupied
                     THEN counts_add_weighted(main.frequencies[name],
                                              other.frequencies[name],
                                              Alpha(main.area, other.area))
                     \* Entry::Vacant
                     ELSE other.frequencies[name]],
        !.area = main.area + other.area,
        !.blocks_counted = main.blocks_counted + other.blocks_counted,
        !.chunks_counted = main.chunks_counted + other.chunks_counted,
        !.protochunks_seen = main.protochunks_seen + other.protochunks_seen]

\* the a_weight of every counts_add_weighted call of one merge
MergeWeights(main, other) ==
    {Alpha(main.area, other.area) :
        name \in DOMAIN main.frequencies \cap DOMAIN other.frequencies}

---------------------------------------------------------------------------
(* The loader: what regions.region(x, z) gives at each coordinate *)

Reg(chunks) == [kind |-> "region", chunks |-> chunks]
\* Ok(None)
NotFound == [kind |-> "notfound", chunks |-> <<>>]
\* Err(e)
LoadError == [kind |-> "error", chunks |-> <<>>]

\* regions offered as inputs; slots past the listed ones are absent
RegStone == Reg(<<FullPost18>>)
RegOre == Reg(<<FullPre18, FullPre18>>)
RegMixed == Reg(<<ProtoPost18, FullPost18>>)
RegProto == Reg(<<Absent, ProtoPre18>>)
RegNoChunks == Reg(<<Undecodable, Absent>>)

RegionInputs ==
    {NotFound, LoadError, RegStone, RegOre, RegMixed, RegProto, RegNoChunks}

DimNames == <<Overworld, Nether, "minecraft:the_end", "jamd:mining">>

---------------------------------------------------------------------------
(* determine_version *)

Decodable(chunks) == {i \in 1 .. Len(chunks) : chunks[i].kind = "chunk"}

VersionOf(variant) ==
    CASE variant = "Post18" -> "AtLeast118"
      [] variant = "Pre18" -> "Pre118"
      [] variant = "Pre13" -> "Pre118"

\* iter_regions skips the regions that fail to load or are not there; the
\* first chunk that decodes decides; "panic" when the loop finds none
RECURSIVE determine_version_from(_, _)
determine_version_from(regions, i) ==
    IF i > Len(regions) THEN "panic"
    ELSE IF regions[i].kind = "region" /\ Decodable(regions[i].chunks) # {}
         THEN VersionOf(regions[i].chunks[Min(Decodable(regions[i].chunks))].variant)
         ELSE determine_version_from(regions, i + 1)

determine_version(regions) == determine_version_from(regions, 1)

---------------------------------------------------------------------------
(* scan_multiple and process_zone_in_folder *)

Ok(freqs) == [tag |-> "Ok", freqs |-> freqs]
Ignore == [tag |-> "Ignore", freqs |-> NoTable]

Item(res, count, seen) == [res |-> res, count |-> count, seen |-> seen]

\* the identity of the reduce: || (RegionResult::Ignore, 0, 0)
Identity == Item(Ignore, 0, 0)

\* the map closure of the parallel iterator, for the region at one coordinate
MapOne(r, dimension, p) ==
    CASE r.kind = "region" -> Item(Ok(count_frequencies(r.chunks, dimension, p)), 1, 1)
      [] r.kind = "notfound" -> Item(Ignore, 0, 1)
      [] r.kind = "error" -> Item(Ignore, 0, 1)

\* the reduce closure
ReduceOp(main, other) ==
    Item(CASE main.res.tag = "Ok" /\ other.res.tag = "Ok" ->
                Ok(merge_frequencies_into(main.res.freqs, other.res.freqs))
           [] main.res.tag = "Ok" /\ other.res.tag = "Ignore" -> main.res
           [] main.res.tag = "Ignore" /\ other.res.tag = "Ok" -> other.res
           [] main.res.tag = "Ignore" /\ other.res.tag = "Ignore" -> Ignore,
         main.count + other.count,
         main.seen + other.seen)

\* the a_weight values the reduce closure passes down
ReduceWeights(main, other) ==
    IF main.res.tag = "Ok" /\ other.res.tag = "Ok"
    THEN MergeWeights(main.res.freqs, other.res.freqs)
    ELSE {}

\* dim_paths: the dimension scanned and what its region folder holds
Regions == world[dim]
Dimension == DimNames[dim]

InitScan(ndims, nregions, inputs) ==
    /\ pc = "scan_multiple"
    /\ proto \in ProtoOptions
    /\ world \in [1 .. ndims -> [1 .. nregions -> inputs]]
    /\ dim = 1
    /\ version = "-" /\ next_region = 0 /\ parts = <<>>
    /\ weights = {} /\ merges = {}
    /\ results_by_dim = <<>> /\ outcomes = <<>>
    /\ RegionIdle /\ ZoneIdle /\ ExportIdle /\ MainIdle
    /\ WarnIdle

Init == InitScan(1, ZoneRegions, RegionInputs)

DimRegionInputs == {NotFound, LoadError, RegStone, RegMixed, RegNoChunks}

InitDims == InitScan(NumDims, DimRegions, DimRegionInputs)

\* scan_multiple enters process_zone_in_folder for the next dimension, and
\* determine_version finds a chunk it can read
StartDimension ==
    /\ pc = "scan_multiple" /\ dim <= Len(world)
    /\ determine_version(Regions) # "panic"
    /\ version' = determine_version(Regions)
    /\ next_region' = 1
    /\ parts' = <<>>
    /\ weights' = {} /\ merges' = {}
    /\ pc' = "map_reduce"
    /\ UNCHANGED <<warnVars, mainVars, proto, world, dim, results_by_dim, outcomes, regionVars,
                   zoneVars, exportVars>>

\* determine_version panics: no region of the zone holds a readable chunk
VersionPanic ==
    /\ pc = "scan_multiple" /\ dim <= Len(world)
    /\ determine_version(Regions) = "panic"
    /\ pc' = "panicked"
    /\ UNCHANGED <<warnVars, mainVars, proto, scanVars, regionVars, zoneVars, exportVars>>

\* one coordinate of the parallel map; a map reads nothing but its own
\* region, so the coordinates are taken in order, while the reduce may
\* combine finished neighbours at any time
MapStep ==
    /\ parts' = Append(parts, MapOne(Regions[next_region], Dimension, proto))
    /\ next_region' = next_region + 1
    /\ UNCHANGED <<warnVars, mainVars, pc, proto, world, dim, version, weights, merges,
                   results_by_dim, outcomes, regionVars, zoneVars, exportVars>>

Mapping == pc = "map_reduce" /\ next_region <= Len(Regions)

\* Ok(Some(region)): the region is scanned
MapRegion == Mapping /\ Regions[next_region].kind = "region" /\ MapStep

\* Ok(None)
MapNotFound == Mapping /\ Regions[next_region].kind = "notfound" /\ MapStep

\* Err(e)
MapLoadError == Mapping /\ Regions[next_region].kind = "error" /\ MapStep

Splice(seq, i, item) ==
    SubSeq(seq, 1, i - 1) \o <<item>> \o SubSeq(seq, i + 2, Len(seq))

\* rayon combines two neighbouring partial results, the left one as main
Reduce ==
    /\ pc = "map_reduce"
    /\ \E i \in 1 .. Len(parts) - 1 :
        LET main == parts[i]
            other == parts[i + 1]
            ws == ReduceWeights(main, other)
        IN  /\ weights' = weights \cup ws
            /\ merges' = IF main.res.tag = "Ok" /\ other.res.tag = "Ok"
                         THEN merges \cup
                              {<<main.res.freqs.area, other.res.freqs.area>>}
                         ELSE merges
            /\ IF \A w \in ws : InUnitRange(w)
               THEN /\ parts' = Splice(parts, i, ReduceOp(main, other))
                    /\ pc' = pc
               \* assert!((0.0..=1.0).contains(&a_weight)) fails
               ELSE /\ parts' = parts
                    /\ pc' = "weight_panic"
    /\ UNCHANGED <<warnVars, mainVars, proto, world, dim, version, next_region, results_by_dim,
                   outcomes, regionVars, zoneVars, exportVars>>

\* the result of the reduce once every coordinate is mapped and combined;
\* combining with the identity leaves a partial result as it is, so only
\* the reduce of no coordinate at all shows it
Total == IF parts = <<>> THEN Identity ELSE parts[1]

Outcome(total) ==
    IF total.res.tag = "Ignore" THEN "NoRegionsPresent"
    ELSE IF total.res.freqs.chunks_counted = 0 THEN "NoChunksFound"
    ELSE "Ok"

\* the tail of process_zone_in_folder and the match of scan_multiple on what
\* it returned; the loop goes on to the next dimension
FinishDimension ==
    /\ pc = "map_reduce"
    /\ next_region > Len(Regions) /\ Len(parts) <= 1
    /\ outcomes' = Append(outcomes, Outcome(Total))
    /\ results_by_dim' =
          IF Outcome(Total) = "Ok"
          THEN Append(results_by_dim, <<Total.res.freqs, version>>)
          ELSE results_by_dim
    /\ dim' = dim + 1
    /\ pc' = "scan_multiple"
    /\ UNCHANGED <<warnVars, mainVars, proto, world, version, next_region, parts, weights, merges,
                   regionVars, zoneVars, exportVars>>

\* scan_multiple returns results_by_dim
ScanDone ==
    /\ pc = "scan_multiple" /\ dim > Len(world)
    /\ pc' = "scanned"
    /\ UNCHANGED <<warnVars, mainVars, proto, scanVars, regionVars, zoneVars, exportVars>>

Next ==
    \/ StartDimension
    \/ VersionPanic
    \/ MapRegion
    \/ MapNotFound
    \/ MapLoadError
    \/ Reduce
    \/ FinishDimension
    \/ ScanDone

Spec == Init /\ [][Next]_vars

SpecDims == InitDims /\ [][Next]_vars

---------------------------------------------------------------------------
(* Claims about the merge, checked on the tables the reduce holds *)

\* the table and the raw counts of the region at coordinate i of the
\* dimension being scanned
RegionTable(i) == count_frequencies(Regions[i].chunks, Dimension, proto)
RegionCounts(i) == count_blocks(Regions[i].chunks, Dimension, proto).counts

\* coordinates a partial result stands for
FirstOf(k) == 1 + SumOver(1 .. (k - 1), [j \in 1 .. (k - 1) |-> parts[j].seen])
Covered(k) == FirstOf(k) .. (FirstOf(k) + parts[k].seen - 1)
Loaded(k) == {i \in Covered(k) : Regions[i].kind = "region"}

OkParts == {k \in 1 .. Len(parts) : parts[k].res.tag = "Ok"}
TableOf(k) == parts[k].res.freqs

SameNumbers(f, g) ==
    /\ f.frequencies = g.frequencies
    /\ f.area = g.area
    /\ f.blocks_counted = g.blocks_counted
    /\ f.chunks_counted = g.chunks_counted
    /\ f.protochunks_seen = g.protochunks_seen

(* C1: once the reduce has combined three regions of positive area into one
   table, that table has the area and the value at every (block, level) of
   both groupings (A.B).C and A.(B.C): the shape of the reduction tree does
   not show in the result. *)
C1_ReduceAssociative ==
    pc = "map_reduce" =>
        \A k \in OkParts :
            (/\ parts[k].seen = 3
             /\ Loaded(k) = Covered(k)
             /\ \A i \in Covered(k) : RegionTable(i).area > 0)
            => LET a == RegionTable(FirstOf(k))
                   b == RegionTable(FirstOf(k) + 1)
                   c == RegionTable(FirstOf(k) + 2)
                   left == merge_frequencies_into(merge_frequencies_into(a, b), c)
                   right == merge_frequencies_into(a, merge_frequencies_into(b, c))
               IN  /\ TableOf(k).area = left.area
                   /\ TableOf(k).area = right.area
                   /\ TableOf(k).frequencies = left.frequencies
                   /\ TableOf(k).frequencies = right.frequencies

(* C2: every table the reduce holds has as area the sum of the areas of the
   regions merged into it, and at every (block, level) it holds the sum of
   those regions' raw counts divided by that area. *)
C2_MergeIsSumOverArea ==
    pc = "map_reduce" =>
        \A k \in OkParts :
            LET F == TableOf(k)
                total_area ==
                    SumOver(Loaded(k), [i \in Loaded(k) |-> RegionTable(i).area])
            IN  /\ F.area = total_area
                /\ \A name \in DOMAIN F.frequencies :
                    \A y \in DOMAIN F.frequencies[name] :
                        LET f == F.frequencies[name][y]
                            raw == SumOver(Loaded(k),
                                     [i \in Loaded(k) |->
                                         CountAt(RegionCounts(i), name, y)])
                        IN  IsFinite(f) /\ f.n * total_area = raw * f.d

(* C3: BlockFrequencies::empty is a two-sided identity of
   merge_frequencies_into: merged into any table the reduce holds, or that
   table merged into it, the frequencies, area, blocks_counted,
   chunks_counted and protochunks_seen are those of the table, and no weight
   is computed on the way. *)
C3_EmptyIsIdentity ==
    pc = "map_reduce" =>
        \A k \in OkParts :
            LET F == TableOf(k)
                E == Empty(Dimension)
            IN  /\ SameNumbers(merge_frequencies_into(F, E), F)
                /\ SameNumbers(merge_frequencies_into(E, F), F)
                /\ MergeWeights(F, E) = {} /\ MergeWeights(E, F) = {}

\* a table merged from two regions, holding both blocks
C3_Witness ==
    /\ pc = "map_reduce"
    /\ \E k \in OkParts :
        /\ parts[k].count = 2
        /\ TableOf(k).area > 0
        /\ DOMAIN TableOf(k).frequencies = BlockNames

(* C4: for two tables the reduce holds that have equal areas, merging the
   first into the second and the second into the first give the same
   (block, level) keys with the same values, the same area and the same
   summed counters. *)
C4_CommutativeOnEqualAreas ==
    pc = "map_reduce" =>
        \A k1 \in OkParts, k2 \in OkParts :
            TableOf(k1).area = TableOf(k2).area =>
                SameNumbers(merge_frequencies_into(TableOf(k1), TableOf(k2)),
                            merge_frequencies_into(TableOf(k2), TableOf(k1)))

\* two tables of equal positive area with different keys and values
C4_Witness ==
    /\ pc = "map_reduce"
    /\ \E k1 \in OkParts, k2 \in OkParts :
        /\ TableOf(k1).area = TableOf(k2).area
        /\ TableOf(k1).area > 0
        /\ TableOf(k1).frequencies # TableOf(k2).frequencies
        /\ DOMAIN TableOf(k1).frequencies # DOMAIN TableOf(k2).frequencies
        /\ DOMAIN TableOf(k1).frequencies \cap DOMAIN TableOf(k2).frequencies # {}

(* C5: every weight handed to counts_add_weighted while a dimension's region
   tables are reduced lies in [0,1]; the assertion never fails, also when
   one or both operands of a merge have area 0. *)
C5_WeightInUnitRange ==
    /\ pc # "weight_panic"
    /\ \A w \in weights : InUnitRange(w)

\* a weight was computed, and some merge had an operand of area 0
C5_Witness ==
    /\ weights # {}
    /\ \E m \in merges : m[1] = 0 \/ m[2] = 0

---------------------------------------------------------------------------
(* Claims about the scan of several dimensions *)

NoLoadableRegion(d) == \A i \in 1 .. Len(world[d]) : world[d][i].kind # "region"

NoDecodableChunk(d) ==
    /\ ~NoLoadableRegion(d)
    /\ \A i \in 1 .. Len(world[d]) :
        world[d][i].kind = "region" => Decodable(world[d][i].chunks) = {}

\* process_zone_in_folder was entered for dimension d and is not running any more
Left(d) == dim > d \/ (dim = d /\ pc \in {"panicked", "weight_panic"})

(* C8: a dimension whose zone holds no loadable region ends as
   NoRegionsPresent, one whose loaded regions hold no decodable chunk ends
   as NoChunksFound, and in both cases scan_multiple is not aborted. *)
C8_TerminalEmptyNonFatal ==
    \A d \in 1 .. Len(world) :
        Left(d) =>
            /\ NoLoadableRegion(d) =>
                  d \in DOMAIN outcomes /\ outcomes[d] = "NoRegionsPresent"
            /\ NoDecodableChunk(d) =>
                  d \in DOMAIN outcomes /\ outcomes[d] = "NoChunksFound"

\* every table a reduction of the tables ts (in this order) can end with,
\* over all shapes of the reduction tree
RECURSIVE AllMerges(_)
AllMerges(ts) ==
    IF Len(ts) = 1 THEN {ts[1]}
    ELSE UNION {{merge_frequencies_into(a, b) :
                    a \in AllMerges(SubSeq(ts, 1, j)),
                    b \in AllMerges(SubSeq(ts, j + 1, Len(ts)))} :
                j \in 1 .. (Len(ts) - 1)}

\* the i-th smallest element of a set of coordinates
RECURSIVE Nth(_, _)
Nth(S, i) == IF i = 1 THEN Min(S) ELSE Nth(S \ {Min(S)}, i - 1)

\* the tables of the loadable regions among the coordinates S, in order
LoadableTables(S) ==
    LET L == {i \in S : Regions[i].kind = "region"}
    IN  [n \in 1 .. Cardinality(L) |-> RegionTable(Nth(L, n))]

\* a partial result of the reduce is what the loadable regions among its
\* coordinates give on their own
UnloadableExcluded(k) ==
    /\ parts[k].count = Cardinality(Loaded(k))
    /\ parts[k].res.tag = "Ignore" <=> Loaded(k) = {}
    /\ parts[k].res.tag = "Ok" =>
          TableOf(k) \in AllMerges(LoadableTables(Covered(k)))

(* C12: a region that is not found or fails to load is not fatal and does
   not show in the reduction: every partial result counts 0 valid regions
   for it and holds a table the loadable regions among its coordinates give
   on their own (Ignore if there is none); a zone without any loadable
   region does not abort the scan but ends as NoRegionsPresent, and only
   such a zone does, while NoChunksFound is the end of a zone where a region
   loaded and no chunk was counted. *)
C12_UnloadableRegionsExcluded ==
    /\ pc = "map_reduce" => \A k \in 1 .. Len(parts) : UnloadableExcluded(k)
    /\ \A d \in 1 .. Len(world) :
          /\ (Left(d) /\ NoLoadableRegion(d)) =>
                d \in DOMAIN outcomes /\ outcomes[d] = "NoRegionsPresent"
          /\ d \in DOMAIN outcomes =>
                /\ outcomes[d] = "NoRegionsPresent" => NoLoadableRegion(d)
                /\ outcomes[d] = "NoChunksFound" => ~NoLoadableRegion(d)

\* the part of C12 about the reduction alone
IgnoreIsNeutral ==
    pc = "map_reduce" => \A k \in 1 .. Len(parts) : UnloadableExcluded(k)

\* decodable protochunks and decodable full chunks of the loadable regions
\* among the coordinates S of the one dimension of Spec
ProtoChunksIn(S) ==
    SumOver(S, [i \in S |->
        Cardinality({j \in Decodable(world[1][i].chunks) :
                        ~IsFull(world[1][i].chunks[j])})])
FullChunksIn(S) ==
    SumOver(S, [i \in S |->
        Cardinality({j \in Decodable(world[1][i].chunks) :
                        IsFull(world[1][i].chunks[j])})])

\* the tally of one table, F standing for the regions at the coordinates S
TallyHolds(F, S) ==
    /\ proto = "OnlyProto" => F.protochunks_seen = F.chunks_counted
    /\ proto = "Include" => F.protochunks_seen <= F.chunks_counted
    /\ proto = "Skip" =>
          /\ F.protochunks_seen = ProtoChunksIn(S)
          /\ F.chunks_counted = FullChunksIn(S)

(* C16: in every table the reduce holds, a region's own or one merged from
   several regions scanned with the same ProtoOption, and in every table
   handed on in results_by_dim, protochunks_seen equals chunks_counted under
   OnlyProto and is at most chunks_counted under Include; under Skip it is
   the number of decodable protochunks of the regions, all skipped, while
   chunks_counted is the number of their decodable full chunks. *)
C16_ProtochunkTally ==
    /\ pc = "map_reduce" =>
          \A k \in OkParts : TallyHolds(TableOf(k), Loaded(k))
    /\ pc = "scanned" =>
          \A i \in 1 .. Len(results_by_dim) :
              TallyHolds(results_by_dim[i][1],
                         {j \in 1 .. Len(world[1]) : world[1][j].kind = "region"})

\* Skip, three regions merged into one table, protochunks seen in two of them
C16_Witness ==
    /\ pc = "map_reduce"
    /\ proto = "Skip"
    /\ Len(parts) = 1
    /\ parts[1].count = 3
    /\ parts[1].res.freqs.protochunks_seen = 2
    /\ parts[1].res.freqs.chunks_counted = 2
    /\ ProtoChunksIn({1}) = 1 /\ ProtoChunksIn({3}) = 1

---------------------------------------------------------------------------
(* SpecZone: Zone::from, Zone::new and region_coords *)

ZoneValues == (0 - ZoneSpan) .. ZoneSpan

InitZone ==
    /\ pc = "zone_from"
    /\ zone_args \in [1 .. 3 -> ZoneValues] \cup [1 .. 4 -> ZoneValues]
    /\ zone = "none"
    /\ coords = <<>>
    /\ proto = "Skip"
    /\ RegionIdle /\ ScanIdle /\ ExportIdle /\ MainIdle
    /\ WarnIdle

\* if vec.len() < 4 { panic!(..) }
ZoneFromTooShort ==
    /\ pc = "zone_from" /\ Len(zone_args) < 4
    /\ pc' = "panicked"
    /\ UNCHANGED <<warnVars, mainVars, proto, zoneVars, regionVars, scanVars, exportVars>>

\* the check Zone::new makes before it builds the Zone
ZoneNewRejects(from_x, to_x, from_z, to_z) == to_x <= from_x

\* Zone::new(vec[0], vec[1], vec[2], vec[3]) panics
ZoneNewPanics ==
    /\ pc = "zone_from" /\ Len(zone_args) >= 4
    /\ ZoneNewRejects(zone_args[1], zone_args[2], zone_args[3], zone_args[4])
    /\ pc' = "panicked"
    /\ UNCHANGED <<warnVars, mainVars, proto, zoneVars, regionVars, scanVars, exportVars>>

\* Zone::new returns the Zone
ZoneNewReturns ==
    /\ pc = "zone_from" /\ Len(zone_args) >= 4
    /\ ~ZoneNewRejects(zone_args[1], zone_args[2], zone_args[3], zone_args[4])
    /\ zone' = [from_x |-> zone_args[1], to_x |-> zone_args[2],
                from_z |-> zone_args[3], to_z |-> zone_args[4]]
    /\ pc' = "zone_built"
    /\ UNCHANGED <<warnVars, mainVars, proto, zone_args, coords, regionVars, scanVars, exportVars>>

\* iproduct!(zone.from_x..zone.to_x, zone.from_z..zone.to_z), x outermost;
\* an empty range gives no coordinate
region_coords(z) ==
    LET nx == IF z.to_x > z.from_x THEN z.to_x - z.from_x ELSE 0
        nz == IF z.to_z > z.from_z THEN z.to_z - z.from_z ELSE 0
    IN  [k \in 1 .. (nx * nz) |->
            <<z.from_x + ((k - 1) \div nz), z.from_z + ((k - 1) % nz)>>]

ListCoords ==
    /\ pc = "zone_built"
    /\ coords' = region_coords(zone)
    /\ pc' = "coords_listed"
    /\ UNCHANGED <<warnVars, mainVars, proto, zone_args, zone, regionVars, scanVars, exportVars>>

NextZone ==
    \/ ZoneFromTooShort
    \/ ZoneNewPanics
    \/ ZoneNewReturns
    \/ ListCoords

SpecZone == InitZone /\ [][NextZone]_vars

(* C7: every Zone that Zone::new or Zone::from hands back has to_x > from_x
   and to_z > from_z; a zero or negative extent on either axis is rejected. *)
C7_ZoneExtentsPositive ==
    pc \in {"zone_built", "coords_listed"} =>
        zone.to_x > zone.from_x /\ zone.to_z > zone.from_z

---------------------------------------------------------------------------
(* SpecExport: generate_JER_json and freqs_to_distrib *)

\* faulty variant of Offset: no offset for any version
OffsetNone(v) == 0

\* let offset = match version { Pre118 => 0, AtLeast118 => 64 }
Offset(v) == IF v = "AtLeast118" THEN 64 ELSE 0

\* let max_jer_height = 255
MaxJerHeight == 255

\* `as u16` of an isize
AsU16(i) == i % 65536

DepthLimit(v) == 0 - Offset(v)

LimitsExceeded(freqs, v) ==
    Min(DOMAIN freqs) < DepthLimit(v) \/ Max(DOMAIN freqs) > MaxJerHeight

\* faulty variant of freqs_to_distrib: levels above max_jer_height are
\* written too
freqs_to_distrib_unclamped(freqs, v) ==
    LET lo == DepthLimit(v)
        hi == Max(DOMAIN freqs)
    IN  [k \in 1 .. (hi - lo + 1) |->
            [level |-> AsU16((lo + k - 1) + Offset(v)),
             value |-> Get(freqs, lo + k - 1)]]

\* the distribution string, one "{level},{value};" token per element
freqs_to_distrib(freqs, v) ==
    LET lo == DepthLimit(v)
        max_y == Max(DOMAIN freqs)
        hi == IF max_y < MaxJerHeight THEN max_y ELSE MaxJerHeight
    IN  [k \in 1 .. (hi - lo + 1) |->
            [level |-> AsU16((lo + k - 1) + Offset(v)),
             value |-> Get(freqs, lo + k - 1)]]

\* levels blocks are offered at in the tables to export
ExportLevels == {-70, -10, 3, 300}

LevelMaps ==
    {[y \in ys |-> F64Div(1, 256)] : ys \in (SUBSET ExportLevels) \ {{}}}

ExportTables ==
    UNION {[names -> LevelMaps] : names \in SUBSET BlockNames}

Versions == {"Pre118", "AtLeast118"}

InitExport ==
    /\ pc = "generate_JER_json"
    /\ \E fr \in ExportTables, v \in Versions :
          frequency_data =
              <<<<[frequencies |-> fr, blocks_counted |-> 256 * 384,
                   chunks_counted |-> 1, protochunks_seen |-> 0, area |-> 256,
                   dimension |-> Overworld], v>>>>
    /\ exp_idx = 1
    /\ exp_done = {}
    /\ distrib_list = <<>>
    /\ cache = <<>>
    /\ log = <<>>
    /\ proto = "Skip"
    /\ RegionIdle /\ ScanIdle /\ ZoneIdle /\ MainIdle
    /\ WarnIdle

FreqData == frequency_data[exp_idx][1]
FreqVersion == frequency_data[exp_idx][2]

InCache(d) == \E i \in 1 .. Len(cache) : cache[i] = d

\* the body of `for (name, freqs) in &freq_data.frequencies`, the HashMap
\* handing out its entries in any order
ExportEntry(name) ==
    LET freqs == FreqData.frequencies[name]
        d == FreqData.dimension
    IN  /\ exp_done' = exp_done \cup {name}
        /\ IF freqs = EmptyMap
           THEN UNCHANGED <<warnVars, mainVars, cache, log>>
           ELSE IF LimitsExceeded(freqs, FreqVersion)
                THEN IF ~InCache(d)
                     THEN /\ log' = Append(log, [level |-> "WARN", dim |-> d,
                                                 name |-> name])
                          /\ cache' = Append(cache, d)
                     ELSE /\ log' = Append(log, [level |-> "TRACE", dim |-> d,
                                                 name |-> name])
                          /\ cache' = cache
                ELSE UNCHANGED <<warnVars, mainVars, cache, log>>
        /\ UNCHANGED <<warnVars, mainVars, pc, proto, frequency_data, exp_idx, regionVars,
                       scanVars, zoneVars>>

Exporting == pc = "generate_JER_json" /\ exp_idx <= Len(frequency_data)

\* the block gets a record in distrib_list
ExportPush ==
    /\ Exporting
    /\ \E name \in DOMAIN FreqData.frequencies \ exp_done :
        LET freqs == FreqData.frequencies[name]
        IN  /\ freqs # EmptyMap
            /\ freqs_to_distrib(freqs, FreqVersion) # <<>>
            /\ distrib_list' =
                  Append(distrib_list,
                         [block |-> name,
                          distrib |-> freqs_to_distrib(freqs, FreqVersion),
                          silktouch |-> FALSE,
                          dim |-> FreqData.dimension])
            /\ ExportEntry(name)

\* if freqs.is_empty() { continue } and if distrib.is_empty() { continue }
ExportOmit ==
    /\ Exporting
    /\ \E name \in DOMAIN FreqData.frequencies \ exp_done :
        LET freqs == FreqData.frequencies[name]
        IN  /\ freqs = EmptyMap \/ freqs_to_distrib(freqs, FreqVersion) = <<>>
            /\ distrib_list' = distrib_list
            /\ ExportEntry(name)

\* the inner loop is over: next (freq_data, version)
NextFreqData ==
    /\ Exporting
    /\ DOMAIN FreqData.frequencies \ exp_done = {}
    /\ exp_idx' = exp_idx + 1
    /\ exp_done' = {}
    /\ UNCHANGED <<warnVars, mainVars, pc, proto, frequency_data, distrib_list, cache, log,
                   regionVars, scanVars, zoneVars>>

\* serde_json::to_string_pretty(&distrib_list)
Serialize ==
    /\ pc = "generate_JER_json" /\ exp_idx > Len(frequency_data)
    /\ pc' = "exported"
    /\ UNCHANGED <<warnVars, mainVars, proto, exportVars, regionVars, scanVars, zoneVars>>

NextExport ==
    \/ ExportPush
    \/ ExportOmit
    \/ NextFreqData
    \/ Serialize

SpecExport == InitExport /\ [][NextExport]_vars

\* blocks of the one exported table that lie at raw level -10 only
OnlyAtMinus10 ==
    {name \in DOMAIN frequency_data[1][1].frequencies :
        DOMAIN frequency_data[1][1].frequencies[name] = {-10}}

RecordsOf(name) ==
    {i \in 1 .. Len(distrib_list) : distrib_list[i].block = name}

HasToken(name, level) ==
    \E i \in RecordsOf(name) :
        \E k \in 1 .. Len(distrib_list[i].distrib) :
            /\ distrib_list[i].distrib[k].level = level
            /\ distrib_list[i].distrib[k].value =
                  frequency_data[1][1].frequencies[name][-10]

(* C9 as stated: a block present only at raw level -10 is exported with a
   token of level 54 under AtLeast118 and with a token of level -10 under
   Pre118. *)
C9_OffsetAsStated ==
    pc = "exported" =>
        \A name \in OnlyAtMinus10 :
            IF frequency_data[1][2] = "AtLeast118"
            THEN HasToken(name, 54)
            ELSE HasToken(name, -10)

(* C9 as amended: a block present only at raw level -10 is exported under
   AtLeast118 with its frequency in a token of level 54, the last of the
   tokens of levels 0..54; under Pre118 level -10 lies below the depth limit
   0, no token is written and the block gets no record in the export. *)
C9_OffsetAmended ==
    pc = "exported" =>
        \A name \in OnlyAtMinus10 :
            IF frequency_data[1][2] = "AtLeast118"
            THEN /\ Cardinality(RecordsOf(name)) = 1
                 /\ HasToken(name, 54)
                 /\ \A i \in RecordsOf(name) :
                       /\ Len(distrib_list[i].distrib) = 55
                       /\ \A k \in 1 .. 55 :
                             distrib_list[i].distrib[k].level = k - 1
            ELSE RecordsOf(name) = {}

C9_Witness ==
    /\ pc = "exported"
    /\ frequency_data[1][2] = "AtLeast118"
    /\ Stone \in OnlyAtMinus10
    /\ HasToken(Stone, 54)

\* blocks of the one exported table the loop of generate_JER_json is through
\* with
Exported ==
    IF exp_idx > 1 THEN DOMAIN frequency_data[1][1].frequencies ELSE exp_done

\* the raw levels a block of the exported table gets a token for
TokenLevels(name) ==
    LET freqs == frequency_data[1][1].frequencies[name]
        offset == IF frequency_data[1][2] = "Pre118" THEN 0 ELSE 64
    IN  {y \in (0 - offset) .. 255 : y <= Max(DOMAIN freqs)}

\* the record's tokens are those of the levels ys in increasing order, each
\* with the level moved by the offset and the frequency at the level, or 0
\* where the block has none
TokensAre(distrib, name, ys) ==
    LET freqs == frequency_data[1][1].frequencies[name]
        offset == IF frequency_data[1][2] = "Pre118" THEN 0 ELSE 64
    IN  /\ Len(distrib) = Cardinality(ys)
        /\ \A k \in 1 .. Len(distrib) :
              /\ distrib[k].level = k - 1
              /\ distrib[k].level <= 319
              /\ (k - 1) - offset \in ys
              /\ distrib[k].value =
                    IF (k - 1) - offset \in DOMAIN freqs
                    THEN freqs[(k - 1) - offset]
                    ELSE Zero

(* C15: a block generate_JER_json is through with has one record whose
   tokens are, in increasing order, those of every level y with
   depth_limit <= y <= min(highest level of the block, 255), carrying
   y + offset (0 for Pre118, 64 for AtLeast118, depth_limit = -offset) and
   the block's frequency at y, or 0 where it has none: the token levels are
   0, 1, 2, .. and at most 319; a block without any such level has no
   record, and no record has an empty token list. *)
C15_DistribRange ==
    pc \in {"generate_JER_json", "exported"} =>
        /\ \A name \in Exported :
              IF TokenLevels(name) = {}
              THEN RecordsOf(name) = {}
              ELSE /\ Cardinality(RecordsOf(name)) = 1
                   /\ \A i \in RecordsOf(name) :
                         TokensAre(distrib_list[i].distrib, name,
                                   TokenLevels(name))
        /\ \A i \in 1 .. Len(distrib_list) :
              /\ distrib_list[i].block \in Exported
              /\ distrib_list[i].distrib # <<>>

\* an AtLeast118 block at -70, 3 and 300: 320 tokens, the one of level 67
\* holding the frequency at 3, the one of level 0 holding 0; next to it a
\* block that is left out
C15_Witness ==
    /\ pc = "exported"
    /\ frequency_data[1][2] = "AtLeast118"
    /\ DOMAIN frequency_data[1][1].frequencies = {Stone, Ore}
    /\ DOMAIN frequency_data[1][1].frequencies[Stone] = {-70, 3, 300}
    /\ DOMAIN frequency_data[1][1].frequencies[Ore] = {-70}
    /\ RecordsOf(Ore) = {}
    /\ \E i \in RecordsOf(Stone) :
          /\ Len(distrib_list[i].distrib) = 320
          /\ distrib_list[i].distrib[68] =
                [level |-> 67, value |-> F64Div(1, 256)]
          /\ distrib_list[i].distrib[1] = [level |-> 0, value |-> Zero]
          /\ distrib_list[i].distrib[320].level = 319

---------------------------------------------------------------------------
(* SpecWarn: freqs_to_distrib called from several threads, one statement
   of the range check per step *)

\* threads calling, and calls each of them makes
WarnThreads == 2
CallsPerThread == 2

\* the version found for each dimension
WarnVersion(d) == IF d = Overworld THEN "Pre118" ELSE "AtLeast118"

\* levels of the blocks exported: -10 is below the depth limit of a Pre118
\* dimension only, 300 is above 255
WarnLevels(d) == IF d = Overworld THEN {-10, 3} ELSE {-10, 300}

\* the arguments of one call
WarnCalls ==
    UNION {{[freqs |-> [y \in {l} |-> F64Div(1, 256)],
             version |-> WarnVersion(d), dimension |-> d, name |-> Stone] :
                l \in WarnLevels(d)} :
           d \in {Overworld, Nether}}

InitWarn ==
    /\ pc = "freqs_to_distrib"
    /\ threads \in
          [1 .. WarnThreads ->
              {[calls |-> c, idx |-> 1, at |-> "limits", found |-> FALSE,
                distrib |-> <<>>] :
                  c \in [1 .. CallsPerThread -> WarnCalls]}]
    /\ mutex = 0
    /\ cache = <<>>
    /\ log = <<>>
    /\ frequency_data = <<>> /\ exp_idx = 0 /\ exp_done = {}
    /\ distrib_list = <<>>
    /\ proto = "Skip"
    /\ RegionIdle /\ ScanIdle /\ ZoneIdle /\ MainIdle

warnRest ==
    <<pc, proto, frequency_data, exp_idx, exp_done, distrib_list, regionVars,
      scanVars, zoneVars, mainVars>>

CallOf(t) == threads[t].calls[threads[t].idx]

Calling(t, at) ==
    threads[t].idx <= Len(threads[t].calls) /\ threads[t].at = at

\* the lock is handed out although another thread holds it
MutexFreeAlways == TRUE

\* DIMENSIONS_LIMITS_EXCEEDED.lock() returns only while nobody holds the lock
MutexFree == mutex = 0

\* if min_y < depth_limit || max_y > max_jer_height: false
WithinLimits(t) ==
    /\ Calling(t, "limits")
    /\ ~LimitsExceeded(CallOf(t).freqs, CallOf(t).version)
    /\ threads' = [threads EXCEPT ![t].at = "tokens"]
    /\ UNCHANGED <<mutex, cache, log, warnRest>>

\* the same condition true: the thread goes for the lock
OutsideLimits(t) ==
    /\ Calling(t, "limits")
    /\ LimitsExceeded(CallOf(t).freqs, CallOf(t).version)
    /\ threads' = [threads EXCEPT ![t].at = "lock"]
    /\ UNCHANGED <<mutex, cache, log, warnRest>>

\* let mut cache = DIMENSIONS_LIMITS_EXCEEDED.lock().unwrap()
Lock(t) ==
    /\ Calling(t, "lock")
    /\ MutexFree
    /\ mutex' = t
    /\ threads' = [threads EXCEPT ![t].at = "lookup"]
    /\ UNCHANGED <<cache, log, warnRest>>

\* cache.iter().any(|x| x == dimension)
Lookup(t) ==
    /\ Calling(t, "lookup")
    /\ threads' = [threads EXCEPT ![t].at = "notice",
                                  ![t].found = InCache(CallOf(t).dimension)]
    /\ UNCHANGED <<mutex, cache, log, warnRest>>

\* warn!(..); cache.push(dimension.to_owned()); the guard is dropped
Warn(t) ==
    /\ Calling(t, "notice")
    /\ ~threads[t].found
    /\ log' = Append(log, [level |-> "WARN", dim |-> CallOf(t).dimension,
                           name |-> CallOf(t).name])
    /\ cache' = Append(cache, CallOf(t).dimension)
    /\ mutex' = 0
    /\ threads' = [threads EXCEPT ![t].at = "tokens"]
    /\ UNCHANGED warnRest

\* trace!(..); the guard is dropped
Trace(t) ==
    /\ Calling(t, "notice")
    /\ threads[t].found
    /\ log' = Append(log, [level |-> "TRACE", dim |-> CallOf(t).dimension,
                           name |-> CallOf(t).name])
    /\ mutex' = 0
    /\ threads' = [threads EXCEPT ![t].at = "tokens"]
    /\ UNCHANGED <<cache, warnRest>>

\* the for loop writing the tokens, and the return; the thread's next call
Tokens(t) ==
    /\ Calling(t, "tokens")
    /\ threads' = [threads EXCEPT
          ![t].distrib = freqs_to_distrib(CallOf(t).freqs, CallOf(t).version),
          ![t].idx = @ + 1,
          ![t].at = "limits"]
    /\ UNCHANGED <<mutex, cache, log, warnRest>>

NextWarn ==
    \E t \in 1 .. WarnThreads :
        \/ WithinLimits(t)
        \/ OutsideLimits(t)
        \/ Lock(t)
        \/ Lookup(t)
        \/ Warn(t)
        \/ Trace(t)
        \/ Tokens(t)

SpecWarn == InitWarn /\ [][NextWarn]_vars

\* positions of the log holding a notice of the level about dimension d
Notices(level, d) ==
    {i \in 1 .. Len(log) : log[i].level = level /\ log[i].dim = d}

\* calls about dimension d outside the limits that have written their notice
\* (the ones before the thread's current call, and the current one once it
\* is at its tokens)
Noticed(d) ==
    {<<t, i>> \in (1 .. WarnThreads) \X (1 .. CallsPerThread) :
        /\ threads[t].calls[i].dimension = d
        /\ LimitsExceeded(threads[t].calls[i].freqs, threads[t].calls[i].version)
        /\ \/ i < threads[t].idx
           \/ i = threads[t].idx /\ threads[t].at = "tokens"}

(* C14: whatever the order in which the threads' calls of freqs_to_distrib
   interleave, the WARN notice is written at most once per dimension; every
   call with a level below depth_limit or above 255 writes one notice, the
   first of them for the dimension at WARN and every later one at TRACE;
   calls within the limits write none; and no dimension is in the cache
   twice. *)
C14_WarnOncePerDimension ==
    pc = "freqs_to_distrib" =>
        /\ \A d \in {Overworld, Nether} :
              /\ Cardinality(Notices("WARN", d)) <= 1
              /\ \A i \in Notices("WARN", d), j \in Notices("TRACE", d) : i < j
              /\ Cardinality(Notices("WARN", d) \cup Notices("TRACE", d)) =
                    Cardinality(Noticed(d))
              /\ Notices("WARN", d) # {} <=> InCache(d)
        /\ \A i \in 1 .. Len(cache), j \in 1 .. Len(cache) :
              i # j => cache[i] # cache[j]

\* both threads are done, each after two calls outside the limits, one
\* dimension noticed three times and the other once
C14_Witness ==
    /\ pc = "freqs_to_distrib"
    /\ \A t \in 1 .. WarnThreads : threads[t].idx > CallsPerThread
    /\ Cardinality(Notices("WARN", Overworld)) = 1
    /\ Cardinality(Notices("TRACE", Overworld)) = 2
    /\ Cardinality(Notices("WARN", Nether)) = 1
    /\ cache = <<Overworld, Nether>>
    /\ log[1].level = "WARN" /\ log[2].level = "WARN"
    /\ threads[1].calls[1].dimension = Overworld
    /\ threads[2].calls[1].dimension = Overworld

---------------------------------------------------------------------------
(* SpecPaths: get_path_from_dimension and the dimension loop of main *)

\* pieces a dimension identifier is written with: ':' and '/' one character
\* each, the others words holding neither; no two words stand side by side,
\* so that two identifiers are the same string exactly if they are the same
\* sequence of pieces
MaxIdLen == 4

Colon == ":"
Slash == "/"
Words == {"minecraft", "overworld", "the_nether", "the_end", "jamd"}
Pieces == Words \cup {Colon, Slash}

Str(n) ==
    {s \in UNION {[1 .. l -> Pieces] : l \in 0 .. n} :
        \A i \in 1 .. (Len(s) - 1) : ~(s[i] \in Words /\ s[i + 1] \in Words)}

Identifiers == Str(MaxIdLen)

IdOverworld == <<"minecraft", Colon, "overworld">>
IdNether == <<"minecraft", Colon, "the_nether">>
IdEnd == <<"minecraft", Colon, "the_end">>

\* dimension.split(':').collect()
RECURSIVE Split(_)
Split(s) ==
    IF \A i \in 1 .. Len(s) : s[i] # Colon THEN <<s>>
    ELSE LET c == Min({i \in 1 .. Len(s) : s[i] = Colon})
         IN  <<SubSeq(s, 1, c - 1)>> \o Split(SubSeq(s, c + 1, Len(s)))

\* Path::is_absolute
IsAbsolute(p) == Len(p) > 0 /\ p[1] = Slash

\* PathBuf::push: an absolute path replaces the buffer, any other is
\* appended after a separator the buffer does not end with already
Push(buf, p) ==
    IF IsAbsolute(p) THEN p
    ELSE IF Len(buf) > 0 /\ buf[Len(buf)] # Slash THEN buf \o <<Slash>> \o p
    ELSE buf \o p

Some(path) == [some |-> TRUE, path |-> path]
None == [some |-> FALSE, path |-> <<>>]

get_path_from_dimension(dimension) ==
    IF dimension = IdOverworld THEN Some(<<"region">>)
    ELSE IF dimension = IdNether THEN Some(<<"DIM-1", Slash, "region">>)
    ELSE IF dimension = IdEnd THEN Some(<<"DIM1", Slash, "region">>)
    ELSE LET parts_ == Split(dimension)
         IN  IF Len(parts_) # 2 THEN None
             ELSE Some(Push(Push(Push(<<"dimensions", Slash>>, parts_[1]),
                                 parts_[2]),
                            <<"region">>))

\* args.path
ArgsPath == <<"world">>

\* args.dims: one identifier, or one after a vanilla dimension
InitPaths ==
    /\ pc = "resolve_dims"
    /\ dims \in {<<d>> : d \in Identifiers} \cup
                {<<IdOverworld, d>> : d \in Identifiers}
    /\ dims_idx = 1
    /\ paths_to_scan = <<>>
    /\ only_blocks_above = Zero /\ unfiltered = <<>> /\ filter_idx = 0
    /\ proto = "Skip"
    /\ RegionIdle /\ ScanIdle /\ ZoneIdle /\ ExportIdle /\ WarnIdle

pathsRest ==
    <<proto, dims, only_blocks_above, unfiltered, filter_idx, regionVars,
      scanVars, zoneVars, exportVars, warnVars>>

Resolving == pc = "resolve_dims" /\ dims_idx <= Len(dims)

FullPath(suffix) == Push(ArgsPath, suffix)

\* Some(suffix), and the path exists
DimensionResolved ==
    /\ Resolving
    /\ get_path_from_dimension(dims[dims_idx]).some
    /\ paths_to_scan' =
          Append(paths_to_scan,
                 <<dims[dims_idx],
                   FullPath(get_path_from_dimension(dims[dims_idx]).path)>>)
    /\ dims_idx' = dims_idx + 1
    /\ UNCHANGED <<pc, pathsRest>>

\* Some(suffix), and !full_path.exists()
DimensionMissing ==
    /\ Resolving
    /\ get_path_from_dimension(dims[dims_idx]).some
    /\ paths_to_scan' =
          Append(paths_to_scan,
                 <<dims[dims_idx],
                   FullPath(get_path_from_dimension(dims[dims_idx]).path)>>)
    /\ pc' = "bail_no_such_path"
    /\ UNCHANGED <<dims_idx, pathsRest>>

\* None => bail!("Wasn't able to parse dimension: {}")
DimensionUnparsed ==
    /\ Resolving
    /\ ~get_path_from_dimension(dims[dims_idx]).some
    /\ pc' = "bail_unparsed"
    /\ UNCHANGED <<dims_idx, paths_to_scan, pathsRest>>

DimsResolved ==
    /\ pc = "resolve_dims" /\ dims_idx > Len(dims)
    /\ pc' = "dims_resolved"
    /\ UNCHANGED <<dims_idx, paths_to_scan, pathsRest>>

NextPaths ==
    \/ DimensionResolved
    \/ DimensionMissing
    \/ DimensionUnparsed
    \/ DimsResolved

SpecPaths == InitPaths /\ [][NextPaths]_vars

Colons(s) == Cardinality({i \in 1 .. Len(s) : s[i] = Colon})

NsOf(s) == SubSeq(s, 1, Min({i \in 1 .. Len(s) : s[i] = Colon}) - 1)
NameOf(s) == SubSeq(s, Min({i \in 1 .. Len(s) : s[i] = Colon}) + 1, Len(s))

\* what a path string names: whether it starts at the root, and its
\* components (separators, doubled ones too, name nothing)
Components(p) ==
    [root |-> IsAbsolute(p),
     names |-> SelectSeq(p, LAMBDA x : x # Slash)]

\* the relative path the identifier is to be mapped to
MappedTo(s) ==
    IF s = IdOverworld THEN <<"region">>
    ELSE IF s = IdNether THEN <<"DIM-1", Slash, "region">>
    ELSE IF s = IdEnd THEN <<"DIM1", Slash, "region">>
    ELSE <<"dimensions", Slash>> \o NsOf(s) \o <<Slash>> \o NameOf(s)
            \o <<Slash, "region">>

(* C13: every dimension main has resolved has exactly one colon and got, below
   args.path, the path "region" for minecraft:overworld, "DIM-1/region" for
   minecraft:the_nether, "DIM1/region" for minecraft:the_end and
   "dimensions/ns/name/region" for any other "ns:name" (paths compared by
   their components); and main stops with "unable to parse" exactly at an
   identifier that does not hold exactly one colon. *)
C13_DimensionPaths ==
    /\ \A i \in 1 .. Len(paths_to_scan) :
          /\ Colons(paths_to_scan[i][1]) = 1
          /\ Components(paths_to_scan[i][2]) =
                Components(ArgsPath \o <<Slash>> \o MappedTo(paths_to_scan[i][1]))
    /\ pc = "bail_unparsed" => Colons(dims[dims_idx]) # 1
    /\ (Resolving /\ Colons(dims[dims_idx]) # 1) =>
          ~ENABLED DimensionResolved

\* C13 for the identifiers none of whose two parts starts with '/'
RelativeParts ==
    \A i \in 1 .. Len(dims) :
        Colons(dims[i]) = 1 =>
            ~IsAbsolute(NsOf(dims[i])) /\ ~IsAbsolute(NameOf(dims[i]))

DimensionPathsOfRelativeParts == RelativeParts => C13_DimensionPaths

---------------------------------------------------------------------------
(* SpecFilter: remove_too_rare *)

\* a >= b on f64: false as soon as one side is NaN
F64Ge(a, b) ==
    IF a = NaN \/ b = NaN THEN FALSE
    ELSE IF a = Inf THEN TRUE
    ELSE IF b = Inf THEN FALSE
    ELSE a.n * b.d >= b.n * a.d

\* cutoff <= 0.
F64LeZero(a) == IsFinite(a) /\ a.n <= 0

\* v.values().sum::<f64>()
RECURSIVE F64SumValues(_)
F64SumValues(v) ==
    IF DOMAIN v = {} THEN Zero
    ELSE LET y == CHOOSE y \in DOMAIN v : TRUE
         IN  F64Add(v[y], F64SumValues([z \in DOMAIN v \ {y} |-> v[z]]))

\* let world_height = 255f64
WorldHeight == 255

\* a / world_height
F64DivBy(a, h) == IF IsFinite(a) THEN F64Div(a.n, a.d * h) ELSE a

\* faulty variant of Retained: an entry exactly at the cutoff is dropped
RetainedAbove(v, cutoff) ==
    LET normalized_frequency == F64DivBy(F64SumValues(v), WorldHeight)
    IN  F64Ge(normalized_frequency, cutoff) /\ normalized_frequency # cutoff

\* the closure handed to retain
Retained(v, cutoff) ==
    LET normalized_frequency == F64DivBy(F64SumValues(v), WorldHeight)
    IN  F64Ge(normalized_frequency, cutoff)

\* freqs.frequencies.retain(..)
Retain(frequencies, cutoff) ==
    [k \in {k \in DOMAIN frequencies : Retained(frequencies[k], cutoff)} |->
        frequencies[k]]

\* level maps of the tables handed to the filter: sums 0, 1/256, 2/256, 2/256
FilterLevelMaps ==
    {EmptyMap,
     [y \in {3} |-> F64Div(1, 256)],
     [y \in {3, 4} |-> F64Div(1, 256)],
     [y \in {-3} |-> F64Div(2, 256)]}

FilterTables ==
    UNION {[names -> FilterLevelMaps] : names \in SUBSET BlockNames}

FilterEntries ==
    {<<[frequencies |-> fr, blocks_counted |-> 256 * 384, chunks_counted |-> 1,
        protochunks_seen |-> 0, area |-> 256, dimension |-> Overworld], v>> :
        fr \in FilterTables, v \in {"Pre118", "AtLeast118"}}

\* cutoffs: negative, zero, the two sums over 255, one in between, NaN
Cutoffs ==
    {[n |-> -1, d |-> 65280], Zero, F64Div(1, 65280), F64Div(3, 130560),
     F64Div(2, 65280), NaN}

InitFilter ==
    /\ pc = "remove_too_rare"
    /\ results_by_dim \in
          {<<e>> : e \in FilterEntries} \cup
          {<<e1, e2>> : e1 \in FilterEntries, e2 \in FilterEntries}
    /\ unfiltered = results_by_dim
    /\ only_blocks_above \in Cutoffs
    /\ filter_idx = 1
    /\ proto = "Skip"
    /\ world = <<>> /\ dim = 0 /\ version = "-" /\ next_region = 0
    /\ parts = <<>> /\ weights = {} /\ merges = {} /\ outcomes = <<>>
    /\ dims = <<>> /\ dims_idx = 0 /\ paths_to_scan = <<>>
    /\ RegionIdle /\ ZoneIdle /\ ExportIdle /\ WarnIdle

filterRest ==
    <<proto, world, dim, version, next_region, parts, weights, merges,
      outcomes, dims, dims_idx, paths_to_scan, only_blocks_above, unfiltered,
      regionVars, zoneVars, exportVars, warnVars>>

\* if cutoff <= 0. { panic!(..) }
CutoffPanics ==
    /\ pc = "remove_too_rare" /\ filter_idx = 1
    /\ F64LeZero(only_blocks_above)
    /\ pc' = "panicked"
    /\ UNCHANGED <<results_by_dim, filter_idx, filterRest>>

\* one round of `for (freqs, _) in results_by_dim.iter_mut()`
RetainEntry ==
    /\ pc = "remove_too_rare"
    /\ ~F64LeZero(only_blocks_above)
    /\ filter_idx <= Len(results_by_dim)
    /\ results_by_dim' =
          [results_by_dim EXCEPT ![filter_idx][1].frequencies =
              Retain(@, only_blocks_above)]
    /\ filter_idx' = filter_idx + 1
    /\ UNCHANGED <<pc, filterRest>>

FilterReturns ==
    /\ pc = "remove_too_rare"
    /\ ~F64LeZero(only_blocks_above)
    /\ filter_idx > Len(results_by_dim)
    /\ pc' = "filtered"
    /\ UNCHANGED <<results_by_dim, filter_idx, filterRest>>

NextFilter ==
    \/ CutoffPanics
    \/ RetainEntry
    \/ FilterReturns

SpecFilter == InitFilter /\ [][NextFilter]_vars

\* the cutoff is a positive number
PositiveCutoff == IsFinite(only_blocks_above) /\ only_blocks_above.n > 0

\* sum of the block's frequencies over all levels, as n/d
LevelSum(v) == F64SumValues(v)

\* sum / 255 >= cutoff, in integers
AtOrAboveCutoff(v) ==
    LevelSum(v).n * only_blocks_above.d >=
        only_blocks_above.n * LevelSum(v).d * 255

(* C11: for a positive cutoff, once remove_too_rare has returned, a block
   entry of a dimension is still there exactly if the sum of its frequencies
   over all levels, divided by 255, is at least the cutoff, whatever the
   dimension's RegionVersion; a retained entry keeps its level map and the
   other fields of the table are untouched. *)
C11_RarityBoundary ==
    (pc = "filtered" /\ PositiveCutoff) =>
        \A i \in 1 .. Len(unfiltered) :
            LET was == unfiltered[i][1].frequencies
                now == results_by_dim[i][1].frequencies
            IN  /\ DOMAIN now = {k \in DOMAIN was : AtOrAboveCutoff(was[k])}
                /\ \A k \in DOMAIN now : now[k] = was[k]
                /\ results_by_dim[i] =
                      <<[unfiltered[i][1] EXCEPT !.frequencies = now],
                        unfiltered[i][2]>>

\* one entry exactly at the cutoff is kept, one below it is dropped
C11_Witness ==
    /\ pc = "filtered"
    /\ only_blocks_above = F64Div(2, 65280)
    /\ Len(unfiltered) = 2
    /\ unfiltered[1][2] # unfiltered[2][2]
    /\ DOMAIN unfiltered[1][1].frequencies = {Stone, Ore}
    /\ unfiltered[1][1].frequencies[Stone] = [y \in {3, 4} |-> F64Div(1, 256)]
    /\ unfiltered[1][1].frequencies[Ore] = [y \in {3} |-> F64Div(1, 256)]
    /\ DOMAIN results_by_dim[1][1].frequencies = {Stone}

====
